---------------------------- MODULE Spec2Model ----------------------------
(***************************************************************************)
(* A model of the FIFA World Cup dashboard script (src/code_1.py).         *)
(*                                                                         *)
(* The script runs once from top to bottom (table selection, column        *)
(* resolution, canonicalization, aggregation, layout) and then serves two  *)
(* callbacks, update_country_stats and update_year_details, for as long as *)
(* the process lives.  pc is the position of the script; the module-level  *)
(* names of the script (tables, table, df, winner_col, runner_col,         *)
(* win_counts) are the variables of the model.                             *)
(*                                                                         *)
(* Representation.                                                         *)
(*  - A column label is the record [lead, core, trail]: the text           *)
(*    lead \o core \o trail, where lead and trail are its leading and      *)
(*    trailing whitespace and core neither starts nor ends with            *)
(*    whitespace.  Every string splits this way in exactly one way.        *)
(*  - The non-breaking hyphen (U+2011) of the source is written <U+2011>   *)
(*    and the en dash (U+2013) <U+2013>: the module is ASCII.              *)
(*  - A table is [cols, rows]: rows[k][j] is the cell of row k in column   *)
(*    j.  The missing cell (NaN) is the text "nan": pandas reads a cell    *)
(*    holding that text as missing, so no cell holds it as a string.       *)
(*  - Python's None is the record None; a callback's argument is           *)
(*    [none, v]: none = TRUE for None, and v the value otherwise.          *)
(***************************************************************************)
EXTENDS Integers, Sequences, FiniteSets, TLC

VARIABLES tables, table, df, winner_col, runner_col, win_counts,
          country_options, year_options, pc, error, response

vars == <<tables, table, df, winner_col, runner_col, win_counts,
          country_options, year_options, pc, error, response>>

\* Bounds of the model.
MaxTables == 2
MaxRows == 2

None == [none |-> TRUE]

\* No exception was raised.
NoError == ""

NaN == "nan"

(***************************************************************************)
(* Column labels.                                                          *)
(***************************************************************************)
Lit(s) == [lead |-> "", core |-> s, trail |-> ""]

\* A buggy variant of Strip: only the leading whitespace is removed.
StripLeftOnly(label) == [lead |-> "", core |-> label.core, trail |-> label.trail]

\* str.strip() on one label (line 26).
Strip(label) == [lead |-> "", core |-> label.core, trail |-> ""]

\* table.columns.astype(str).str.strip() (line 26).
StripColumns(cols) == [j \in 1..Len(cols) |-> Strip(cols[j])]

\* label in cols (the labels of a table are a list).
In(s, cols) == \E j \in 1..Len(cols) : cols[j] = Lit(s)

\* A buggy variant of Matches: the singular non-breaking spelling is let in.
MatchesLoose(cols) ==
    /\ In("Year", cols)
    /\ (In("Winner", cols) \/ In("Winners", cols))
    /\ \/ In("Runner-up", cols) \/ In("Runners-up", cols)
       \/ In("Runners<U+2011>up", cols) \/ In("Runner<U+2011>up", cols)

\* The condition of lines 29-30.
Matches(cols) ==
    /\ In("Year", cols)
    /\ (In("Winner", cols) \/ In("Winners", cols))
    /\ (In("Runner-up", cols) \/ In("Runners-up", cols) \/ In("Runners<U+2011>up", cols))

(***************************************************************************)
(* The input: what pd.read_html returns (line 21).  The labels of a table  *)
(* are texts, distinct once trimmed (the parser renames a repeated label), *)
(* the Year cells are integers and the other cells texts or missing.       *)
(***************************************************************************)
\* The years of the finals: zero, the one falsy year, and a year of the page.
Years == {0, 1930}

Cells == {"West Germany", "Germany", "Brazil", NaN}

Filler == "Italy"

\* The column headers of the candidate tables: three that hold the three
\* columns under one spelling or another, and two that do not.
Headers ==
    { <<[lead |-> " ", core |-> "Year", trail |-> ""],
        [lead |-> "", core |-> "Winner", trail |-> " "],
        [lead |-> "\t", core |-> "Runner-up", trail |-> "\n"]>>,
      <<Lit("Winners"), Lit("Runners<U+2011>up"), Lit("Year")>>,
      <<Lit("Year"), Lit("Winner"), Lit("Winners"), Lit("Runner-up"), Lit("Runners-up")>>,
      <<Lit("Year"), Lit("Winners"), Lit("Runner<U+2011>up")>>,
      <<Lit("Winners"), Lit("Runners-up")>> }

\* The header of the table whose rows vary over every bounded content.
DataHeader == <<Lit("Year"), Lit("Winners"), Lit("Runners-up")>>

WinnerLabels == {"Winner", "Winners"}

RunnerLabels == {"Runner-up", "Runners-up", "Runners<U+2011>up", "Runner<U+2011>up"}

\* No earlier column of the header has a label of the set.
FirstOf(header, j, labels) == \A m \in 1..(j - 1) : header[m].core \notin labels

\* The cell of column j in the row that holds final p: the first winner
\* column holds the winner and the first runner-up column the runner-up;
\* every other column but Year holds a filler text.
CellFor(header, j, p) ==
    LET core == header[j].core IN
    IF core = "Year" THEN p.year
    ELSE IF core \in WinnerLabels /\ FirstOf(header, j, WinnerLabels) THEN p.winner
    ELSE IF core \in RunnerLabels /\ FirstOf(header, j, RunnerLabels) THEN p.runner
    ELSE Filler

MkTable(header, finals) ==
    [cols |-> header,
     rows |-> [k \in 1..Len(finals) |->
                  [j \in 1..Len(header) |-> CellFor(header, j, finals[k])]]]

Final == [year : Years, winner : Cells, runner : Cells]

\* The finals of the table of several rows: every final has a runner-up.
DataFinal == [year : Years, winner : Cells, runner : Cells \ {NaN}]

\* The page holds up to MaxTables tables of one final at most, all with the
\* same rows, or one table of two to MaxRows finals.
Init ==
    /\ \/ \E n \in 0..MaxTables : \E hs \in [1..n -> Headers] :
            \E m \in 0..1 : \E finals \in [1..m -> Final] :
                tables = [t \in 1..n |-> MkTable(hs[t], finals)]
       \/ \E m \in 2..MaxRows : \E finals \in [1..m -> DataFinal] :
                tables = <<MkTable(DataHeader, finals)>>
    /\ table = 0
    /\ df = None
    /\ winner_col = None
    /\ runner_col = None
    /\ win_counts = None
    /\ country_options = None
    /\ year_options = None
    /\ pc = "scan"
    /\ error = NoError
    /\ response = None

(***************************************************************************)
(* Step 1: table selection (lines 23-35).                                  *)
(***************************************************************************)
\* One iteration of the loop of lines 24-32 on the next table: its labels
\* are stripped in place; a table that matches is copied to df and ends the
\* loop.
ScanTable ==
    /\ pc = "scan"
    /\ table < Len(tables)
    /\ LET i == table + 1
           cols == StripColumns(tables[i].cols)
       IN /\ table' = i
          /\ tables' = [tables EXCEPT ![i].cols = cols]
          /\ IF Matches(cols)
             THEN /\ df' = tables'[i]
                  /\ pc' = "selected"
             ELSE /\ df' = df
                  /\ pc' = "scan"
    /\ UNCHANGED <<winner_col, runner_col, win_counts, country_options,
                   year_options, error, response>>

\* Lines 34-35, reached by the break or when the loop runs out of tables.
CheckTable ==
    /\ \/ pc = "selected"
       \/ pc = "scan" /\ table = Len(tables)
    /\ IF df = None
       THEN /\ pc' = "failed"
            /\ error' = "No suitable table found on the Wikipedia page. Please check the page structure."
       ELSE /\ pc' = "resolve"
            /\ error' = error
    /\ UNCHANGED <<tables, table, df, winner_col, runner_col, win_counts,
                   country_options, year_options, response>>

(***************************************************************************)
(* Data-frame operations.                                                  *)
(***************************************************************************)
\* The position of the column labelled s (the labels of a table are distinct).
ColIdx(cols, s) == CHOOSE j \in 1..Len(cols) : cols[j] = Lit(s)

\* d[s]: the cells of the column labelled s, in row order.
Column(d, s) == [k \in 1..Len(d.rows) |-> d.rows[k][ColIdx(d.cols, s)]]

\* d[[s1, s2, s3]] (line 55).
Project(d, labels) ==
    [cols |-> [j \in 1..Len(labels) |-> Lit(labels[j])],
     rows |-> [k \in 1..Len(d.rows) |->
                  [j \in 1..Len(labels) |-> d.rows[k][ColIdx(d.cols, labels[j])]]]]

\* A buggy variant of Replace: nothing is replaced.
ReplaceNothing(cell) == cell

\* Series.replace({'West Germany': 'Germany'}) on one cell (lines 58-59).
Replace(cell) == IF cell = "West Germany" THEN "Germany" ELSE cell

\* d with Replace applied to the column labelled s.
ReplaceColumn(d, s) ==
    [d EXCEPT !.rows = [k \in 1..Len(d.rows) |->
                           [d.rows[k] EXCEPT ![ColIdx(d.cols, s)] = Replace(@)]]]

\* cell == value, for a text value: a missing cell equals nothing.
Eq(cell, value) == cell # NaN /\ cell = value

\* The rows of d whose column s equals value, as the increasing list of their
\* positions: d[d[s] == value].
RECURSIVE Filter(_, _, _, _)
Filter(d, s, value, k) ==
    IF k > Len(d.rows) THEN <<>>
    ELSE (IF Eq(d.rows[k][ColIdx(d.cols, s)], value) THEN <<k>> ELSE <<>>)
         \o Filter(d, s, value, k + 1)

\* The same for the Year column, whose cells are integers.
RECURSIVE FilterYear(_, _, _)
FilterYear(d, value, k) ==
    IF k > Len(d.rows) THEN <<>>
    ELSE (IF d.rows[k][ColIdx(d.cols, "Year")] = value THEN <<k>> ELSE <<>>)
         \o FilterYear(d, value, k + 1)

\* The counting loop of value_counts over the cells from position k on:
\* acc maps each value met so far to its count; the missing cell is skipped.
RECURSIVE CountFrom(_, _, _)
CountFrom(column, k, acc) ==
    IF k > Len(column) THEN acc
    ELSE LET c == column[k]
         IN CountFrom(column, k + 1,
                      IF c = NaN THEN acc
                      ELSE IF c \in DOMAIN acc THEN [acc EXCEPT ![c] = @ + 1]
                      ELSE acc @@ (c :> 1))

\* A buggy variant of ValueCounts: the first cell is not counted.
ValueCountsSkipFirst(column) == CountFrom(column, 2, <<>>)

\* Series.value_counts() (line 62): the count of every value but the missing
\* one.  The order of the result (by decreasing count) is not modelled.
ValueCounts(column) == CountFrom(column, 1, <<>>)

\* sorted(...) of a set of integers.
RECURSIVE Sorted(_)
Sorted(S) ==
    IF S = {} THEN <<>>
    ELSE LET lo == CHOOSE x \in S : \A y \in S : x <= y
         IN <<lo>> \o Sorted(S \ {lo})

(***************************************************************************)
(* Step 1, continued: column resolution, canonicalization, aggregation.    *)
(***************************************************************************)
\* Lines 38-55: the winner and runner-up labels in the order of preference
\* of the script, then the three columns.
ResolveColumns ==
    /\ pc = "resolve"
    /\ IF ~(In("Winners", df.cols) \/ In("Winner", df.cols))
       THEN /\ pc' = "failed"
            /\ error' = "No Winner column found."
            /\ UNCHANGED <<df, winner_col, runner_col>>
       ELSE /\ winner_col' = IF In("Winners", df.cols) THEN "Winners" ELSE "Winner"
            /\ IF ~(\/ In("Runners<U+2011>up", df.cols) \/ In("Runners-up", df.cols)
                    \/ In("Runner-up", df.cols))
               THEN /\ pc' = "failed"
                    /\ error' = "No Runner<U+2011>up column found."
                    /\ UNCHANGED <<df, runner_col>>
               ELSE /\ runner_col' =
                          IF In("Runners<U+2011>up", df.cols) THEN "Runners<U+2011>up"
                          ELSE IF In("Runners-up", df.cols) THEN "Runners-up"
                          ELSE "Runner-up"
                    /\ df' = Project(df, <<"Year", winner_col', runner_col'>>)
                    /\ pc' = "canonicalize"
                    /\ error' = error
    /\ UNCHANGED <<tables, table, win_counts, country_options, year_options, response>>

\* Lines 58-59.
Canonicalize ==
    /\ pc = "canonicalize"
    /\ df' = ReplaceColumn(ReplaceColumn(df, winner_col), runner_col)
    /\ pc' = "aggregate"
    /\ UNCHANGED <<tables, table, winner_col, runner_col, win_counts,
                   country_options, year_options, error, response>>

\* Lines 62-63.
Aggregate ==
    /\ pc = "aggregate"
    /\ win_counts' = ValueCounts(Column(df, winner_col))
    /\ pc' = "layout"
    /\ UNCHANGED <<tables, table, df, winner_col, runner_col,
                   country_options, year_options, error, response>>

(***************************************************************************)
(* Step 2: the layout (lines 92-130).  The options of the country dropdown *)
(* are the countries of win_counts (their order, alphabetical, is not      *)
(* modelled); the options of the year dropdown are the sorted years.       *)
(***************************************************************************)
BuildLayout ==
    /\ pc = "layout"
    /\ country_options' = DOMAIN win_counts
    /\ year_options' = LET y == Column(df, "Year")
                       IN Sorted({y[k] : k \in 1..Len(y)})
    /\ pc' = "serving"
    /\ UNCHANGED <<tables, table, df, winner_col, runner_col, win_counts,
                   error, response>>

(***************************************************************************)
(* Step 3: the callbacks (lines 136-180).  A callback may be invoked with  *)
(* any value, whether or not it is an option of its dropdown.  response    *)
(* holds the last callback's name, argument, return value (out) and the    *)
(* local variables it bound: none on the path that returns the prompt.     *)
(***************************************************************************)
Selected(value) == [none |-> FALSE, v |-> value]

\* A returned str (the other return value is the html.Div of line 152).
Text(s) == [text |-> s]

CountryArgs ==
    {[none |-> TRUE, v |-> ""]}
    \cup {Selected(c) : c \in {"", "West Germany", "Germany", "Brazil", Filler}}

\* A year of no final.
AbsentYear == 1954

YearArgs ==
    {[none |-> TRUE, v |-> 0]} \cup {Selected(y) : y \in Years \cup {AbsentYear}}

\* not selected_country (line 141): None and the empty text are falsy.
NotCountry(sel) == sel.none \/ sel.v = ""

\* not selected_year (line 173): None and zero are falsy.
NotYear(sel) == sel.none \/ sel.v = 0

\* ", ".join(str(y) for y in years).
RECURSIVE Join(_)
Join(years) ==
    IF years = <<>> THEN ""
    ELSE IF Len(years) = 1 THEN ToString(years[1])
    ELSE ToString(years[1]) \o ", " \o Join(Tail(years))

\* df.loc[rows, 'Year'].tolist() for a list of row positions.
YearsOf(d, at) == [n \in 1..Len(at) |-> d.rows[at[n]][ColIdx(d.cols, "Year")]]

\* A buggy variant of WinRows: the rows are told by the runner-up column.
WinRowsByRunner(d, value) == Filter(d, runner_col, value, 1)

\* df[df[winner_col] == selected_country] (lines 145, 149).
WinRows(d, value) == Filter(d, winner_col, value, 1)

\* df[df[runner_col] == selected_country] (lines 146, 150).
RunnerRows(d, value) == Filter(d, runner_col, value, 1)

\* A buggy variant of YearText: the years are joined in reverse order.
YearTextReversed(heading, years) ==
    IF years # <<>>
    THEN heading \o Join([n \in 1..Len(years) |-> years[Len(years) + 1 - n]])
    ELSE heading \o "None"

\* Lines 157-164: a list of years, or None for the empty list.
YearText(heading, years) ==
    IF years # <<>> THEN heading \o Join(years) ELSE heading \o "None"

\* A buggy variant of LookupFrame: the callback rebinds df to the rows it
\* filtered (none, for a name or a year of no final).
LookupFrameRebind ==
    /\ df' = [df EXCEPT !.rows = <<>>]
    /\ UNCHANGED <<tables, table, winner_col, runner_col, win_counts,
                   country_options, year_options, pc, error>>

\* Neither callback assigns to a module-level name (lines 140-180).
LookupFrame ==
    UNCHANGED <<tables, table, df, winner_col, runner_col, win_counts,
                country_options, year_options, pc, error>>

CountryPrompt == "Please select a nation from the dropdown above."

YearPrompt == "Please select a year from the dropdown above."

YearMissing == "Data not available for the selected year."

\* Lines 140-165.
update_country_stats ==
    /\ pc = "serving"
    /\ \E selected_country \in CountryArgs :
         IF NotCountry(selected_country)
         THEN response' = [fn |-> "update_country_stats",
                           arg |-> selected_country,
                           out |-> Text(CountryPrompt)]
         ELSE LET name == selected_country.v
                  championships == Len(WinRows(df, name))
                  second_place == Len(RunnerRows(df, name))
                  total_appearances == championships + second_place
                  win_years == YearsOf(df, WinRows(df, name))
                  runner_years == YearsOf(df, RunnerRows(df, name))
              IN response' =
                   [fn |-> "update_country_stats",
                    arg |-> selected_country,
                    out |-> [h3 |-> name \o " <U+2013> World Cup Record",
                             p1 |-> "Championship Titles: " \o ToString(championships),
                             p2 |-> "Second-Place Finishes: " \o ToString(second_place),
                             p3 |-> "Overall Finals Appearances: "
                                       \o ToString(total_appearances),
                             p4 |-> YearText("Championship Years: ", win_years),
                             p5 |-> YearText("Runner-Up Years: ", runner_years)],
                    championships |-> championships, second_place |-> second_place,
                    win_years |-> win_years, runner_years |-> runner_years]
    /\ LookupFrame

\* Lines 172-180.
update_year_details ==
    /\ pc = "serving"
    /\ \E selected_year \in YearArgs :
         IF NotYear(selected_year)
         THEN response' = [fn |-> "update_year_details",
                           arg |-> selected_year,
                           out |-> Text(YearPrompt)]
         ELSE LET match == FilterYear(df, selected_year.v, 1)
              IN IF match = <<>>
                 THEN response' = [fn |-> "update_year_details",
                                   arg |-> selected_year,
                                   out |-> Text(YearMissing),
                                   match |-> match]
                 ELSE LET winner == df.rows[match[1]][ColIdx(df.cols, winner_col)]
                          runner_up == df.rows[match[1]][ColIdx(df.cols, runner_col)]
                      IN response' =
                           [fn |-> "update_year_details",
                            arg |-> selected_year,
                            out |-> Text("In " \o ToString(selected_year.v)
                                           \o ", the title was clinched by " \o winner
                                           \o ", with " \o runner_up
                                           \o " finishing as runner-up."),
                            match |-> match]
    /\ LookupFrame

Next ==
    \/ ScanTable
    \/ CheckTable
    \/ ResolveColumns
    \/ Canonicalize
    \/ Aggregate
    \/ BuildLayout
    \/ update_country_stats
    \/ update_year_details

Spec == Init /\ [][Next]_vars

(***************************************************************************)
(* The claims.  After line 55 df holds the columns Year, winner, runner-up *)
(* at positions 1, 2 and 3.                                                *)
(***************************************************************************)
\* The whitespace-trimmed labels of a table, as a set.
TrimmedLabels(t) == {t.cols[j].core : j \in 1..Len(t.cols)}

\* The selection signature: a year column, an accepted winner spelling and
\* an accepted runner-up spelling.
Accepted(t) ==
    /\ "Year" \in TrimmedLabels(t)
    /\ TrimmedLabels(t) \cap {"Winner", "Winners"} # {}
    /\ TrimmedLabels(t) \cap {"Runner-up", "Runners-up", "Runners<U+2011>up"} # {}

NoTableAccepted == \A i \in 1..Len(tables) : ~Accepted(tables[i])

Canonicalized == pc \in {"aggregate", "layout", "serving"}

Started == pc \in {"layout", "serving"}

\* The positions of the rows of df whose column j holds value.
RowsWith(j, value) == {k \in 1..Len(df.rows) : df.rows[k][j] = value}

\* years lists the years of the rows at the positions of S in source order.
InSourceOrder(years, S) ==
    /\ Len(years) = Cardinality(S)
    /\ \A k \in S : years[Cardinality({m \in S : m <= k})] = df.rows[k][1]

C2_NoTableIsFatal ==
    /\ NoTableAccepted =>
          /\ pc \in {"scan", "failed"}
          /\ pc = "failed" =>
                error = "No suitable table found on the Wikipedia page. Please check the page structure."
          /\ df = None /\ win_counts = None /\ response = None
    /\ df # None => pc # "failed" /\ error = NoError
    /\ error \notin {"No Winner column found.", "No Runner<U+2011>up column found."}

\* C2 witness: two tables were scanned, none matched, and the script failed.
C2_Witness ==
    /\ pc = "failed"
    /\ table = 2
    /\ NoTableAccepted

\* C3: once canonicalized, no winner and no runner-up is West Germany; the
\* aggregate has no West Germany key, and Germany's count is the number of
\* rows of the selected table whose winner is Germany under either name.
C3_NoHistoricalName ==
    /\ Canonicalized =>
          \A k \in 1..Len(df.rows) :
              df.rows[k][2] # "West Germany" /\ df.rows[k][3] # "West Germany"
    /\ Started =>
          LET raw == Column(tables[table], winner_col)
              either == {k \in 1..Len(raw) : raw[k] \in {"West Germany", "Germany"}}
          IN /\ "West Germany" \notin DOMAIN win_counts
             /\ "Germany" \in DOMAIN win_counts <=> either # {}
             /\ either # {} => win_counts["Germany"] = Cardinality(either)

\* C3 witness: one final was won under each name and Germany counts two.
C3_Witness ==
    /\ pc = "serving"
    /\ LET raw == Column(tables[table], winner_col)
       IN raw = <<"West Germany", "Germany">>
    /\ win_counts["Germany"] = 2

\* C4: the aggregate's keys are the canonicalized winners of the records,
\* each counted exactly; no record, no key.
C4_WinCountExact ==
    Started =>
       /\ DOMAIN win_counts = {df.rows[k][2] : k \in 1..Len(df.rows)} \ {NaN}
       /\ \A c \in DOMAIN win_counts : win_counts[c] = Cardinality(RowsWith(2, c))
       /\ df.rows = <<>> => DOMAIN win_counts = {}

\* C4 witness: two countries won one final each.
C4_Witness ==
    /\ pc = "serving"
    /\ DOMAIN win_counts = {"Germany", "Brazil"}
    /\ win_counts["Brazil"] = 1

\* C5: for a country of the aggregate, which are the options of the country
\* dropdown, the reported Championship Titles is the aggregate's count.
C5_TitlesEqualAggregate ==
    /\ Started /\ pc = "serving" => country_options = DOMAIN win_counts
    /\ (/\ response # None
        /\ response.fn = "update_country_stats"
        /\ ~response.arg.none
        /\ response.arg.v \in DOMAIN win_counts) =>
          /\ response.championships = win_counts[response.arg.v]
          /\ response.out.p1 =
                "Championship Titles: " \o ToString(win_counts[response.arg.v])

\* C5 witness: a country with two titles was looked up.
C5_Witness ==
    /\ response # None
    /\ response.fn = "update_country_stats"
    /\ response.arg = Selected("Germany")
    /\ "Germany" \in DOMAIN win_counts
    /\ win_counts["Germany"] = 2
    /\ response.out.p1 = "Championship Titles: 2"

\* C6: for a selected non-empty name, the counts are the numbers of records
\* won and lost by exactly that name, the year lists are the years of those
\* records in source order, and an empty list is rendered None.
C6_CountryLookup ==
    (/\ response # None
     /\ response.fn = "update_country_stats"
     /\ ~response.arg.none
     /\ response.arg.v # "") =>
       LET name == response.arg.v
           won == RowsWith(2, name)
           lost == RowsWith(3, name)
       IN /\ response.championships = Cardinality(won)
          /\ response.second_place = Cardinality(lost)
          /\ InSourceOrder(response.win_years, won)
          /\ InSourceOrder(response.runner_years, lost)
          /\ response.out.p1 = "Championship Titles: " \o ToString(Cardinality(won))
          /\ response.out.p2 = "Second-Place Finishes: " \o ToString(Cardinality(lost))
          /\ response.out.p4 =
                IF won = {} THEN "Championship Years: None"
                ELSE "Championship Years: " \o Join(response.win_years)
          /\ response.out.p5 =
                IF lost = {} THEN "Runner-Up Years: None"
                ELSE "Runner-Up Years: " \o Join(response.runner_years)

\* C6 witness: a country that won in 1930 and then in year 0, and never
\* lost a final, was looked up.
C6_Witness ==
    /\ response # None
    /\ response.fn = "update_country_stats"
    /\ response.arg = Selected("Brazil")
    /\ response.out.p4 = "Championship Years: 1930, 0"
    /\ response.out.p5 = "Runner-Up Years: None"
    /\ response.championships = 2

\* The years of the records.
RecordYears == {df.rows[k][1] : k \in 1..Len(df.rows)}

YearLookedUp ==
    /\ response # None
    /\ response.fn = "update_year_details"
    /\ ~response.arg.none

\* C7: a selected year that is the year of no record yields the
\* data-not-available message.
C7_AbsentYear ==
    (YearLookedUp /\ response.arg.v \notin RecordYears) => response.out = Text(YearMissing)

\* C7, for every selected year but zero (holds).
C7_AbsentNonzeroYear ==
    (YearLookedUp /\ response.arg.v \notin RecordYears /\ response.arg.v # 0) =>
        response.out = Text(YearMissing)

\* The sentence of line 180 for a year, a winner and a runner-up.
Sentence(year, winner, runner_up) ==
    "In " \o ToString(year) \o ", the title was clinched by " \o winner
        \o ", with " \o runner_up \o " finishing as runner-up."

\* C8: a selected year that is the year of a record yields the sentence that
\* names the winner and the runner-up of a record of that year, and neither
\* the prompt nor the data-not-available message.
C8_PresentYear ==
    (YearLookedUp /\ response.arg.v \in RecordYears) =>
       /\ \E k \in RowsWith(1, response.arg.v) :
             response.out = Text(Sentence(response.arg.v, df.rows[k][2], df.rows[k][3]))
       /\ response.out \notin {Text(YearPrompt), Text(YearMissing)}

\* C8, for every year of a record but zero, naming the first record of the
\* year (holds).
C8_PresentNonzeroYear ==
    (YearLookedUp /\ response.arg.v \in RecordYears /\ response.arg.v # 0) =>
       LET k == CHOOSE k \in RowsWith(1, response.arg.v) :
                    \A m \in RowsWith(1, response.arg.v) : k <= m
       IN response.out = Text(Sentence(response.arg.v, df.rows[k][2], df.rows[k][3]))

\* C9: with no selection a callback returns its prompt and filters nothing,
\* and a prompt is returned only when there is no selection.  The empty
\* name, which is no option of the country dropdown, is read here as no
\* selection; every year is a selection.
C9_PromptIffNoSelection ==
    response # None =>
       /\ response.arg.none =>
             /\ response.out = IF response.fn = "update_country_stats"
                               THEN Text(CountryPrompt) ELSE Text(YearPrompt)
             /\ DOMAIN response = {"fn", "arg", "out"}
       /\ (response.fn = "update_country_stats" /\ response.out = Text(CountryPrompt))
             => (response.arg.none \/ response.arg.v = "")
       /\ (response.fn = "update_year_details" /\ response.out = Text(YearPrompt))
             => response.arg.none

\* C9, with the prompt returned exactly for the falsy selections: None, the
\* empty name and the year zero (holds).
C9_PromptIffFalsy ==
    response # None =>
       /\ response.fn = "update_country_stats" =>
             /\ response.out = Text(CountryPrompt) <=>
                   (response.arg.none \/ response.arg.v = "")
             /\ response.out = Text(CountryPrompt) => DOMAIN response = {"fn", "arg", "out"}
       /\ response.fn = "update_year_details" =>
             /\ response.out = Text(YearPrompt) <=>
                   (response.arg.none \/ response.arg.v = 0)
             /\ response.out = Text(YearPrompt) => DOMAIN response = {"fn", "arg", "out"}

\* What a lookup returns, told from its argument and the table alone.
Determined(r, d) ==
    IF r.fn = "update_year_details"
    THEN LET hits == {k \in 1..Len(d.rows) : d.rows[k][1] = r.arg.v}
         IN IF r.arg.none \/ r.arg.v = 0 THEN r.out = Text(YearPrompt)
            ELSE IF hits = {} THEN r.out = Text(YearMissing)
            ELSE \E k \in hits :
                    /\ \A m \in hits : k <= m
                    /\ r.out = Text(Sentence(r.arg.v, d.rows[k][2], d.rows[k][3]))
    ELSE IF r.arg.none \/ r.arg.v = "" THEN r.out = Text(CountryPrompt)
         ELSE LET won == {k \in 1..Len(d.rows) : d.rows[k][2] = r.arg.v}
                  lost == {k \in 1..Len(d.rows) : d.rows[k][3] = r.arg.v}
              IN /\ r.out.h3 = r.arg.v \o " <U+2013> World Cup Record"
                 /\ r.out.p1 = "Championship Titles: " \o ToString(Cardinality(won))
                 /\ r.out.p2 = "Second-Place Finishes: " \o ToString(Cardinality(lost))
                 /\ r.out.p3 = "Overall Finals Appearances: "
                                  \o ToString(Cardinality(won) + Cardinality(lost))
                 /\ r.championships = Cardinality(won)
                 /\ r.second_place = Cardinality(lost)

\* C10: once the script serves, every step (a lookup, after any earlier
\* lookups) leaves the table and the aggregate as they were, and what it
\* returns is told by its argument and the table alone.
C10_ReadOnlyLookups ==
    [][pc = "serving" =>
          /\ df' = df
          /\ win_counts' = win_counts
          /\ tables' = tables
          /\ pc' = "serving"
          /\ Determined(response', df)]_vars

\* C10 witness: a year lookup answered after startup over a table of two
\* finals, with the aggregate in place.
C10_Witness ==
    /\ pc = "serving"
    /\ response # None
    /\ response.fn = "update_year_details"
    /\ response.out = Text(Sentence(1930, "Germany", "Brazil"))
    /\ Len(df.rows) = 2
    /\ DOMAIN win_counts = {"Germany", "Brazil"}

=============================================================================
